---- MODULE Spec2Model ----
(***************************************************************************)
(* SimpleVector<Type> (src/simple_vector.h) as a state machine.            *)
(*                                                                         *)
(* A container is a record [items, size, capacity]: items is the content   *)
(* of the ArrayPtr buffer, one value per allocated slot (the slots at      *)
(* size..capacity-1 included), size and capacity are size_ and capacity_.  *)
(* Type is int: Type{} is 0 and a move of an element is a copy.            *)
(*                                                                         *)
(* Iterators are raw pointers.  A pointer is an integer counted in         *)
(* elements: Null is nullptr and the buffer of a container with a non-zero *)
(* capacity starts at HeapAddr.  A read or a write through a pointer that  *)
(* is outside the buffer is undefined behaviour; the operators report it   *)
(* in the field ub of their result and the step that runs into it ends the *)
(* program (status = "crashed").                                           *)
(***************************************************************************)
EXTENDS Integers, Sequences, FiniteSets, TLC

VARIABLES vecs, last, pushed, status

vars == <<vecs, last, pushed, status>>

\* ---- bounds ----
MaxCap == 4
PairCap == 2
CmpCap == 3
MaxVal == 2

Values == 0..MaxVal
PairValues == 0..1

\* What a specification explores: capacities up to cap, elements from vals.
One == [cap |-> MaxCap, vals |-> Values]
Two == [cap |-> PairCap, vals |-> PairValues]
Cmp == [cap |-> CmpCap, vals |-> PairValues]
DefaultValue == 0
Ids == {1, 2}

Null == 0
HeapAddr == 64

\* ---- ArrayPtr ----
\* ArrayPtr<Type>(size): size slots holding the default value; no allocation
\* for size 0.
RECURSIVE ArrayPtrNew(_)
ArrayPtrNew(n) == IF n = 0 THEN <<>> ELSE Append(ArrayPtrNew(n - 1), DefaultValue)

\* ArrayPtr::operator[] as an address: &items_[index].
AddrOf(vec, index) == (IF vec.capacity = 0 THEN Null ELSE HeapAddr) + index

\* A pointer the buffer of vec can be read or written through.
Valid(vec, p) == vec.capacity > 0 /\ p >= HeapAddr /\ p < HeapAddr + vec.capacity

Load(vec, p) == vec.items[p - HeapAddr + 1]
Store(vec, p, x) == [vec EXCEPT !.items[p - HeapAddr + 1] = x]

\* Results of the operations: the container, the returned iterator (Null for
\* a void operation) and whether undefined behaviour was met on the way.
Ok(vec) == [vec |-> vec, ret |-> Null, ub |-> FALSE]
Res(vec, ret, ub) == [vec |-> vec, ret |-> ret, ub |-> ub]

\* ---- observers ----
GetSize(vec) == vec.size
GetCapacity(vec) == vec.capacity
IsEmpty(vec) == GetSize(vec) = 0

begin(vec) == IF IsEmpty(vec) THEN Null ELSE AddrOf(vec, 0)
end(vec) == IF IsEmpty(vec) THEN Null ELSE AddrOf(vec, GetSize(vec))
cbegin(vec) == AddrOf(vec, 0)
cend(vec) == AddrOf(vec, GetSize(vec))

\* The live elements, indices [0, size), as a sequence.
Live(vec) == SubSeq(vec.items, 1, vec.size)

\* ---- <algorithm> on raw pointers ----
\* std::fill(first, last, x) over the buffer of vec.
RECURSIVE Fill(_, _, _, _)
Fill(vec, first, lst, x) ==
    IF first = lst THEN Res(vec, Null, FALSE)
    ELSE IF ~Valid(vec, first) THEN Res(vec, Null, TRUE)
    ELSE Fill(Store(vec, first, x), first + 1, lst, x)

\* std::copy / std::move(first, last, d_first): front to back, from the
\* buffer of src into the buffer of dst.
RECURSIVE CopyRange(_, _, _, _, _)
CopyRange(src, first, lst, dst, d_first) ==
    IF first = lst THEN Res(dst, Null, FALSE)
    ELSE IF ~Valid(src, first) \/ ~Valid(dst, d_first) THEN Res(dst, Null, TRUE)
    ELSE CopyRange(src, first + 1, lst, Store(dst, d_first, Load(src, first)), d_first + 1)

\* std::copy(first, last, d_first) inside one buffer, front to back.
RECURSIVE CopyWithin(_, _, _, _)
CopyWithin(vec, first, lst, d_first) ==
    IF first = lst THEN Res(vec, Null, FALSE)
    ELSE IF ~Valid(vec, first) \/ ~Valid(vec, d_first) THEN Res(vec, Null, TRUE)
    ELSE CopyWithin(Store(vec, d_first, Load(vec, first)), first + 1, lst, d_first + 1)

\* std::move_backward(first, last, d_last) inside one buffer, back to front.
RECURSIVE MoveBackward(_, _, _, _)
MoveBackward(vec, first, lst, d_last) ==
    IF first = lst THEN Res(vec, Null, FALSE)
    ELSE IF ~Valid(vec, lst - 1) \/ ~Valid(vec, d_last - 1) THEN Res(vec, Null, TRUE)
    ELSE MoveBackward(Store(vec, d_last - 1, Load(vec, lst - 1)), first, lst - 1, d_last - 1)

\* ---- constructors ----
DefaultCtor == [items |-> <<>>, size |-> 0, capacity |-> 0]

SizedCtor(n) == [items |-> ArrayPtrNew(n), size |-> n, capacity |-> n]

FillCtor(n, x) ==
    LET v0 == SizedCtor(n) IN Fill(v0, begin(v0), end(v0), x).vec

\* SimpleVector(std::initializer_list<Type> init)
InitListCtor(init) ==
    LET v0 == SizedCtor(Len(init))
        src == [items |-> init, size |-> Len(init), capacity |-> Len(init)]
    IN  CopyRange(src, AddrOf(src, 0), AddrOf(src, Len(init)), v0, begin(v0)).vec

\* Copy constructor that allocates and forgets to copy the elements.
CopyCtorNoCopy(other) ==
    Res(SizedCtor(GetSize(other)), Null, FALSE)

\* Copy constructor that allocates as many slots as the source has.
CopyCtorKeepsCapacity(other) ==
    LET v0 == [SizedCtor(GetCapacity(other)) EXCEPT !.size = GetSize(other)]
    IN  CopyRange(other, cbegin(other), cend(other), v0, begin(v0))

\* SimpleVector(const SimpleVector& other); other is const, so its begin()
\* and end() are cbegin() and cend().
CopyCtor(other) ==
    LET v0 == SizedCtor(GetSize(other))
    IN  CopyRange(other, cbegin(other), cend(other), v0, begin(v0))

\* An ArrayPtr that was moved from owns nothing.
MovedFrom == [items |-> <<>>, size |-> 0, capacity |-> 0]

\* SimpleVector(SimpleVector&& other): the pair <<this, other>> afterwards.
MoveCtor(other) == <<other, MovedFrom>>

\* ---- swap ----
\* The pair <<this, other>> after this->swap(other).
swap(this, other) == <<other, this>>

\* ---- Resize and Reserve ----
RECURSIVE Resize(_, _), Reserve(_, _)

\* Resize that grows past the capacity the way PushBack does, to at least
\* twice the capacity.
ResizeDoubling(vec, new_size) ==
    IF new_size < GetSize(vec) THEN Ok([vec EXCEPT !.size = new_size])
    ELSE IF new_size > GetSize(vec) THEN
        LET twice == 2 * GetCapacity(vec)
            r == IF new_size > GetCapacity(vec)
                 THEN Reserve(vec, IF twice > new_size THEN twice ELSE new_size)
                 ELSE Fill(vec, begin(vec) + vec.size, begin(vec) + new_size, DefaultValue)
        IN  Res([r.vec EXCEPT !.size = new_size], Null, r.ub)
    ELSE Ok(vec)

Resize(vec, new_size) ==
    IF new_size < GetSize(vec) THEN Ok([vec EXCEPT !.size = new_size])
    ELSE IF new_size > GetSize(vec) THEN
        LET r == IF new_size > GetCapacity(vec)
                 THEN Reserve(vec, new_size)
                 ELSE Fill(vec, begin(vec) + vec.size, begin(vec) + new_size, DefaultValue)
        IN  Res([r.vec EXCEPT !.size = new_size], Null, r.ub)
    ELSE Ok(vec)

\* Reserve that reallocates also when the capacity asked for is the capacity
\* it has (>= in place of >).
ReserveAtLeast(vec, new_capacity) ==
    IF new_capacity >= GetCapacity(vec) THEN
        LET tmp0 == SizedCtor(new_capacity)
            r1 == Resize(tmp0, GetCapacity(vec))
            r2 == CopyRange(vec, begin(vec), end(vec), r1.vec, begin(r1.vec))
        IN  Res(swap(vec, r2.vec)[1], Null, r1.ub \/ r2.ub)
    ELSE Ok(vec)

\* Reserve that allocates the larger buffer and forgets to move the elements.
ReserveNoMove(vec, new_capacity) ==
    IF new_capacity > GetCapacity(vec) THEN
        LET tmp0 == SizedCtor(new_capacity)
            r1 == Resize(tmp0, GetCapacity(vec))
        IN  Res(swap(vec, r1.vec)[1], Null, r1.ub)
    ELSE Ok(vec)

Reserve(vec, new_capacity) ==
    IF new_capacity > GetCapacity(vec) THEN
        LET tmp0 == SizedCtor(new_capacity)
            r1 == Resize(tmp0, GetCapacity(vec))
            r2 == CopyRange(vec, begin(vec), end(vec), r1.vec, begin(r1.vec))
        IN  Res(swap(vec, r2.vec)[1], Null, r1.ub \/ r2.ub)
    ELSE Ok(vec)

ReserveCtor(k) == Reserve(DefaultCtor, k).vec

\* DoubleIfFull that grows by one slot.
DoubleIfFullByOne(vec) ==
    IF GetSize(vec) = GetCapacity(vec)
    THEN Reserve(vec, GetCapacity(vec) + 1)
    ELSE Ok(vec)

DoubleIfFull(vec) ==
    IF GetSize(vec) = GetCapacity(vec)
    THEN Reserve(vec, IF GetCapacity(vec) # 0 THEN GetCapacity(vec) * 2 ELSE 1)
    ELSE Ok(vec)

\* (*this)[index] = x
StoreAt(vec, index, x) ==
    IF Valid(vec, AddrOf(vec, index))
    THEN Res(Store(vec, AddrOf(vec, index), x), Null, FALSE)
    ELSE Res(vec, Null, TRUE)

\* ---- element operations ----
\* PushBack that does not grow a full container.
PushBackNoGrow(vec, item) ==
    LET r2 == StoreAt(vec, vec.size, item)
    IN  Res([r2.vec EXCEPT !.size = vec.size + 1], Null, r2.ub)

PushBack(vec, item) ==
    LET r1 == DoubleIfFull(vec)
        r2 == StoreAt(r1.vec, r1.vec.size, item)
    IN  Res([r2.vec EXCEPT !.size = r1.vec.size + 1], Null, r1.ub \/ r2.ub)

\* PopBack without the test for an empty container.
PopBackUnchecked(vec) == Ok([vec EXCEPT !.size = vec.size - 1])

PopBack(vec) ==
    IF ~IsEmpty(vec) THEN Ok([vec EXCEPT !.size = vec.size - 1]) ELSE Ok(vec)

\* Insert that shifts the tail front to back (std::move in place of
\* std::move_backward).
InsertShiftForward(vec, pos, value) ==
    LET index == pos - begin(vec)
        r1 == DoubleIfFull(vec)
        r2 == CopyWithin(r1.vec, begin(r1.vec) + index, end(r1.vec),
                         begin(r1.vec) + index + 1)
        r3 == StoreAt(r2.vec, index, value)
    IN  Res([r3.vec EXCEPT !.size = r1.vec.size + 1],
            AddrOf(r3.vec, index),
            r1.ub \/ r2.ub \/ r3.ub)

Insert(vec, pos, value) ==
    LET index == pos - begin(vec)
        r1 == DoubleIfFull(vec)
        r2 == MoveBackward(r1.vec, begin(r1.vec) + index, end(r1.vec), end(r1.vec) + 1)
        r3 == StoreAt(r2.vec, index, value)
    IN  Res([r3.vec EXCEPT !.size = r1.vec.size + 1],
            AddrOf(r3.vec, index),
            r1.ub \/ r2.ub \/ r3.ub)

\* Erase that does not shift the tail over the erased slot.
EraseNoShift(vec, pos) ==
    LET index == pos - begin(vec)
        v2 == [vec EXCEPT !.size = vec.size - 1]
    IN  Res(v2, IF index = GetSize(v2) THEN end(v2) ELSE AddrOf(v2, index), FALSE)

Erase(vec, pos) ==
    LET index == pos - begin(vec)
        it == begin(vec) + index
        r1 == CopyWithin(vec, it + 1, end(vec), it)
        v2 == [r1.vec EXCEPT !.size = vec.size - 1]
    IN  Res(v2, IF index = GetSize(v2) THEN end(v2) ELSE AddrOf(v2, index), r1.ub)

\* Clear that releases the storage.
ClearRelease(vec) == Ok([items |-> <<>>, size |-> 0, capacity |-> 0])

Clear(vec) == Ok([vec EXCEPT !.size = 0])

\* operator=(const SimpleVector& rhs), this and rhs distinct objects: the
\* result for this.
CopyAssign(this, rhs) ==
    LET tmp == CopyCtor(rhs)
    IN  Res(swap(this, tmp.vec)[1], Null, tmp.ub)

\* Move assignment that reads size_ and capacity_ of the source without
\* resetting them (no std::exchange).
MoveAssignKeepsSource(this, rhs) ==
    <<[items |-> rhs.items, size |-> rhs.size, capacity |-> rhs.capacity],
      [items |-> <<>>, size |-> rhs.size, capacity |-> rhs.capacity]>>

\* operator=(SimpleVector&& rhs), this and rhs distinct objects: the pair
\* <<this, rhs>> afterwards.
MoveAssign(this, rhs) ==
    <<[items |-> rhs.items, size |-> rhs.size, capacity |-> rhs.capacity], MovedFrom>>

\* ---- comparison ----
\* std::equal(first1, last1, first2) over the buffers of a and b: the value
\* and whether a pointer outside a buffer was read.
RECURSIVE Equal(_, _, _, _, _)
Equal(a, first1, last1, b, first2) ==
    IF first1 = last1 THEN [val |-> TRUE, ub |-> FALSE]
    ELSE IF ~Valid(a, first1) \/ ~Valid(b, first2) THEN [val |-> FALSE, ub |-> TRUE]
    ELSE IF Load(a, first1) # Load(b, first2) THEN [val |-> FALSE, ub |-> FALSE]
    ELSE Equal(a, first1 + 1, last1, b, first2 + 1)

\* std::lexicographical_compare(first1, last1, first2, last2).
RECURSIVE LexicographicalCompare(_, _, _, _, _, _)
LexicographicalCompare(a, first1, last1, b, first2, last2) ==
    IF first1 = last1 \/ first2 = last2
    THEN [val |-> first1 = last1 /\ first2 # last2, ub |-> FALSE]
    ELSE IF ~Valid(a, first1) \/ ~Valid(b, first2) THEN [val |-> FALSE, ub |-> TRUE]
    ELSE IF Load(a, first1) < Load(b, first2) THEN [val |-> TRUE, ub |-> FALSE]
    ELSE IF Load(b, first2) < Load(a, first1) THEN [val |-> FALSE, ub |-> FALSE]
    ELSE LexicographicalCompare(a, first1 + 1, last1, b, first2 + 1, last2)

Not(r) == [val |-> ~r.val, ub |-> r.ub]

\* operator== without the test of the sizes.
OpEqNoSizeTest(lhs, rhs, same) ==
    IF same THEN [val |-> TRUE, ub |-> FALSE]
    ELSE Equal(lhs, cbegin(lhs), cend(lhs), rhs, cbegin(rhs))

\* The operators take const references, so begin() and end() are cbegin()
\* and cend(); same tells whether lhs and rhs are the same object.
OpEq(lhs, rhs, same) ==
    IF same THEN [val |-> TRUE, ub |-> FALSE]
    ELSE IF GetSize(lhs) # GetSize(rhs) THEN [val |-> FALSE, ub |-> FALSE]
    ELSE Equal(lhs, cbegin(lhs), cend(lhs), rhs, cbegin(rhs))

OpNe(lhs, rhs, same) == Not(OpEq(lhs, rhs, same))

OpLt(lhs, rhs, same) ==
    LexicographicalCompare(lhs, cbegin(lhs), cend(lhs), rhs, cbegin(rhs), cend(rhs))

OpGt(lhs, rhs, same) == OpLt(rhs, lhs, same)

OpLe(lhs, rhs, same) == Not(OpGt(lhs, rhs, same))

OpGe(lhs, rhs, same) == Not(OpLt(lhs, rhs, same))

\* ---- the state machine ----
\* last: the latest call (its name, the container it was made on, all the
\* containers before it, its value or container argument, its position
\* argument, the iterator or reference it returned and the exception that
\* left it, "none" when it returned).
NoOp == [op |-> "none", id |-> 1, pre |-> [i \in Ids |-> DefaultCtor], arg |-> 0,
         pos |-> Null, ret |-> Null, thrown |-> "none"]

\* The containers a program can construct within lim.
Constructed(lim) ==
    {DefaultCtor}
    \cup {SizedCtor(n) : n \in 0..lim.cap}
    \cup {FillCtor(n, x) : n \in 0..lim.cap, x \in lim.vals}
    \cup {InitListCtor(init) : init \in UNION {[1..n -> lim.vals] : n \in 0..lim.cap}}
    \cup {ReserveCtor(k) : k \in 0..lim.cap}

InitWith(lim) ==
    /\ vecs \in [Ids -> Constructed(lim)]
    /\ vecs[2] = DefaultCtor
    /\ last = NoOp
    /\ pushed = [valid |-> vecs[1].size = 0, vals |-> <<>>]
    /\ status = "ok"

Init == InitWith(One)

\* One call on container id: r is the result of the operation on vecs[id].
Call(id, op, arg, pos, r, lim) ==
    /\ status = "ok"
    /\ r.vec.capacity <= lim.cap
    /\ last' = [op |-> op, id |-> id, pre |-> vecs, arg |-> arg, pos |-> pos,
                ret |-> r.ret, thrown |-> "none"]
    /\ IF r.ub
       THEN vecs' = vecs /\ status' = "crashed"
       ELSE vecs' = [vecs EXCEPT ![id] = r.vec] /\ status' = status

\* pushed: the values pushed on container 1 as long as container 1 started
\* empty and PushBack is the only operation called on it.
NotPush(id) ==
    pushed' = IF id = 1 THEN [valid |-> FALSE, vals |-> <<>>] ELSE pushed

PushBackStep(id, lim) ==
    \E x \in lim.vals :
        /\ Call(id, "PushBack", x, Null, PushBack(vecs[id], x), lim)
        /\ pushed' = IF id = 1 /\ pushed.valid
                     THEN [pushed EXCEPT !.vals = Append(@, x)]
                     ELSE pushed

PopBackStep(id, lim) ==
    /\ Call(id, "PopBack", 0, Null, PopBack(vecs[id]), lim)
    /\ NotPush(id)

InsertStep(id, lim) ==
    \E i \in 0..vecs[id].size, x \in lim.vals :
        /\ Call(id, "Insert", x, begin(vecs[id]) + i,
                Insert(vecs[id], begin(vecs[id]) + i, x), lim)
        /\ NotPush(id)

EraseStep(id, lim) ==
    \E i \in 0..(vecs[id].size - 1) :
        /\ Call(id, "Erase", 0, begin(vecs[id]) + i,
                Erase(vecs[id], begin(vecs[id]) + i), lim)
        /\ NotPush(id)

ClearStep(id, lim) ==
    /\ Call(id, "Clear", 0, Null, Clear(vecs[id]), lim)
    /\ NotPush(id)

ResizeStep(id, lim) ==
    \E n \in 0..lim.cap :
        /\ Call(id, "Resize", n, Null, Resize(vecs[id], n), lim)
        /\ NotPush(id)

ReserveStep(id, lim) ==
    \E k \in 0..lim.cap :
        /\ Call(id, "Reserve", k, Null, Reserve(vecs[id], k), lim)
        /\ NotPush(id)

Next ==
    \/ PushBackStep(1, One)
    \/ PopBackStep(1, One)
    \/ InsertStep(1, One)
    \/ EraseStep(1, One)
    \/ ClearStep(1, One)
    \/ ResizeStep(1, One)
    \/ ReserveStep(1, One)

Spec == Init /\ [][Next]_vars

\* ---- two containers ----
\* A call that involves two containers: dst and src become d and s, unless
\* undefined behaviour was met.
Call2(dst, src, op, d, s, ub) ==
    /\ status = "ok"
    /\ last' = [op |-> op, id |-> dst, pre |-> vecs, arg |-> src, pos |-> Null,
                ret |-> Null, thrown |-> "none"]
    /\ IF ub
       THEN vecs' = vecs /\ status' = "crashed"
       ELSE vecs' = [vecs EXCEPT ![dst] = d, ![src] = s] /\ status' = status
    /\ pushed' = [valid |-> FALSE, vals |-> <<>>]

SwapStep(dst, src) ==
    LET r == swap(vecs[dst], vecs[src])
    IN  Call2(dst, src, "swap", r[1], r[2], FALSE)

\* Container dst is constructed anew as a copy of src.
CopyCtorStep(dst, src) ==
    /\ dst # src
    /\ LET r == CopyCtor(vecs[src])
       IN  Call2(dst, src, "CopyCtor", r.vec, vecs[src], r.ub)

\* Container dst is constructed anew from src, which is moved from.
MoveCtorStep(dst, src) ==
    /\ dst # src
    /\ LET r == MoveCtor(vecs[src])
       IN  Call2(dst, src, "MoveCtor", r[1], r[2], FALSE)

\* dst = src; the test this != &rhs makes the self-assignment a no-op.
CopyAssignStep(dst, src) ==
    IF dst # src
    THEN LET r == CopyAssign(vecs[dst], vecs[src])
         IN  Call2(dst, src, "CopyAssign", r.vec, vecs[src], r.ub)
    ELSE Call2(dst, src, "CopyAssign", vecs[dst], vecs[dst], FALSE)

\* dst = std::move(src); the test this != &rhs makes the self-assignment a
\* no-op.
MoveAssignStep(dst, src) ==
    IF dst # src
    THEN LET r == MoveAssign(vecs[dst], vecs[src])
         IN  Call2(dst, src, "MoveAssign", r[1], r[2], FALSE)
    ELSE Call2(dst, src, "MoveAssign", vecs[dst], vecs[dst], FALSE)

InitPair == InitWith(Two)

NextPair ==
    \E dst \in Ids :
        \/ PushBackStep(dst, Two)
        \/ PopBackStep(dst, Two)
        \/ InsertStep(dst, Two)
        \/ EraseStep(dst, Two)
        \/ ClearStep(dst, Two)
        \/ ResizeStep(dst, Two)
        \/ ReserveStep(dst, Two)
        \/ \E src \in Ids :
            \/ SwapStep(dst, src)
            \/ CopyCtorStep(dst, src)
            \/ MoveCtorStep(dst, src)
            \/ CopyAssignStep(dst, src)
            \/ MoveAssignStep(dst, src)

SpecPair == InitPair /\ [][NextPair]_vars

\* ---- element access ----
\* Type& operator[](size_t index): the slot the reference is bound to.
OpIndex(vec, index) == AddrOf(vec, index)

\* Type& At(size_t index)
At(vec, index) ==
    IF index >= GetSize(vec)
    THEN [ret |-> Null, thrown |-> "out_of_range", ub |-> FALSE]
    ELSE [ret |-> OpIndex(vec, index), thrown |-> "none", ub |-> FALSE]

\* const Type& At(size_t index) const.  *this is const there, so the call
\* (*this).At(index) is a call of this very function: it calls itself without
\* end, whatever index is, and neither throws nor returns.
ConstAt(vec, index) == [ret |-> Null, thrown |-> "none", ub |-> TRUE]

\* How a call that recurses without end finishes: the stack runs out, or,
\* compiled as a jump, it loops for ever.
Diverged == {"crashed", "hung"}

\* One read access on container id; the container is left as it is.
Access(id, op, index, r) ==
    /\ status = "ok"
    /\ last' = [op |-> op, id |-> id, pre |-> vecs, arg |-> index, pos |-> Null,
                ret |-> r.ret, thrown |-> r.thrown]
    /\ vecs' = vecs
    /\ IF r.ub THEN status' \in Diverged ELSE status' = status

AtStep(id, lim) ==
    \E index \in 0..(lim.cap + 1) :
        /\ Access(id, "At", index, At(vecs[id], index))
        /\ NotPush(id)

ConstAtStep(id, lim) ==
    \E index \in 0..(lim.cap + 1) :
        /\ Access(id, "ConstAt", index, ConstAt(vecs[id], index))
        /\ NotPush(id)

\* Insert at a position taken from cbegin() or cend().
InsertAtConstStep(id, lim) ==
    \E pos \in {cbegin(vecs[id]), cend(vecs[id])}, x \in lim.vals :
        /\ Call(id, "InsertAtConst", x, pos, Insert(vecs[id], pos, x), lim)
        /\ NotPush(id)

NextConst ==
    \/ Next
    \/ AtStep(1, One)
    \/ ConstAtStep(1, One)
    \/ InsertAtConstStep(1, One)

SpecConst == Init /\ [][NextConst]_vars

\* ---- allocation failure ----
\* ArrayPtr<Type>(size) with size > 0 allocates, and the allocation can fail
\* with std::bad_alloc.  The operators below are the growing operations in
\* a run where the allocation they reach fails: the container they leave and
\* the exception that leaves them ("none" when they reach no allocation).
Thrown(vec) == [vec |-> vec, thrown |-> "bad_alloc"]
Returned(vec) == [vec |-> vec, thrown |-> "none"]

\* Reserve that empties the container before it allocates.
ReserveFailingClearsFirst(vec, new_capacity) ==
    IF new_capacity > GetCapacity(vec) THEN Thrown([vec EXCEPT !.size = 0])
    ELSE Returned(vec)

\* Reserve: the constructor of tmp throws and nothing after it runs.
ReserveFailing(vec, new_capacity) ==
    IF new_capacity > GetCapacity(vec) THEN Thrown(vec) ELSE Returned(vec)

DoubleIfFullFailing(vec) ==
    IF GetSize(vec) = GetCapacity(vec)
    THEN ReserveFailing(vec, IF GetCapacity(vec) # 0 THEN GetCapacity(vec) * 2 ELSE 1)
    ELSE Returned(vec)

PushBackFailing(vec, item) ==
    LET r == DoubleIfFullFailing(vec)
    IN  IF r.thrown # "none" THEN r ELSE Returned(PushBack(r.vec, item).vec)

InsertFailing(vec, pos, value) ==
    LET r == DoubleIfFullFailing(vec)
    IN  IF r.thrown # "none" THEN r ELSE Returned(Insert(r.vec, pos, value).vec)

\* Resize: size_ = new_size comes after Reserve and is not reached.
ResizeFailing(vec, new_size) ==
    IF new_size > GetSize(vec) /\ new_size > GetCapacity(vec)
    THEN LET r == ReserveFailing(vec, new_size)
         IN  IF r.thrown # "none" THEN r ELSE Returned([r.vec EXCEPT !.size = new_size])
    ELSE Returned(Resize(vec, new_size).vec)

\* One call on container id that an exception leaves.
Throw(id, op, arg, pos, r) ==
    /\ status = "ok"
    /\ r.thrown # "none"
    /\ last' = [op |-> op, id |-> id, pre |-> vecs, arg |-> arg, pos |-> pos,
                ret |-> Null, thrown |-> r.thrown]
    /\ vecs' = [vecs EXCEPT ![id] = r.vec]
    /\ status' = status

PushBackFailingStep(id, lim) ==
    \E x \in lim.vals :
        /\ Throw(id, "PushBack", x, Null, PushBackFailing(vecs[id], x))
        /\ NotPush(id)

InsertFailingStep(id, lim) ==
    \E i \in 0..vecs[id].size, x \in lim.vals :
        /\ Throw(id, "Insert", x, begin(vecs[id]) + i,
                 InsertFailing(vecs[id], begin(vecs[id]) + i, x))
        /\ NotPush(id)

ResizeFailingStep(id, lim) ==
    \E n \in 0..lim.cap :
        /\ Throw(id, "Resize", n, Null, ResizeFailing(vecs[id], n))
        /\ NotPush(id)

ReserveFailingStep(id, lim) ==
    \E k \in 0..lim.cap :
        /\ Throw(id, "Reserve", k, Null, ReserveFailing(vecs[id], k))
        /\ NotPush(id)

NextAlloc ==
    \/ Next
    \/ PushBackFailingStep(1, One)
    \/ InsertFailingStep(1, One)
    \/ ResizeFailingStep(1, One)
    \/ ReserveFailingStep(1, One)

SpecAlloc == Init /\ [][NextAlloc]_vars

\* ---- comparisons of two containers ----
\* The six comparisons of container lhs with container rhs, in one step: ret
\* holds the six results.
CompareStep(lhs, rhs) ==
    LET a == vecs[lhs]
        b == vecs[rhs]
        same == lhs = rhs
        r == [eq |-> OpEq(a, b, same), ne |-> OpNe(a, b, same),
              lt |-> OpLt(a, b, same), le |-> OpLe(a, b, same),
              gt |-> OpGt(a, b, same), ge |-> OpGe(a, b, same)]
    IN  /\ status = "ok"
        /\ last' = [op |-> "Compare", id |-> lhs, pre |-> vecs, arg |-> rhs,
                    pos |-> Null, ret |-> [k \in DOMAIN r |-> r[k].val],
                    thrown |-> "none"]
        /\ vecs' = vecs
        /\ status' = IF \E k \in DOMAIN r : r[k].ub THEN "crashed" ELSE status
        /\ pushed' = [valid |-> FALSE, vals |-> <<>>]

\* Two containers built from initializer lists; PopBack leaves values in the
\* slots past the size.
InitCmp ==
    /\ vecs \in [Ids -> {InitListCtor(init) :
                           init \in UNION {[1..n -> Cmp.vals] : n \in 0..Cmp.cap}}]
    /\ last = NoOp
    /\ pushed = [valid |-> FALSE, vals |-> <<>>]
    /\ status = "ok"

NextCmp ==
    \E lhs \in Ids :
        \/ PopBackStep(lhs, Cmp)
        \/ \E rhs \in Ids : CompareStep(lhs, rhs)

SpecCmp == InitCmp /\ [][NextCmp]_vars

\* ---- properties ----
\* The container the latest call was made on, before and after the call.
Pre == last.pre[last.id]
Post == vecs[last.id]

\* The index a position of the container before the call stands for.
PosIndex == last.pos - begin(Pre)

\* C1: Reserve(k) with k > Capacity(), in any reachable state, yields
\* Capacity() = k, leaves Size() unchanged and leaves the elements at
\* [0, Size()) unchanged and in order.
C1_ReserveGrowKeepsSizeAndElements ==
    (last.op = "Reserve" /\ last.arg > Pre.capacity) =>
        /\ status = "ok"
        /\ Post.capacity = last.arg
        /\ Post.size = Pre.size
        /\ SubSeq(Post.items, 1, Pre.size) = Live(Pre)

\* C2: every container of every reachable state has 0 <= Size() <= Capacity().
C2_SizeWithinCapacity ==
    \A id \in Ids : 0 <= GetSize(vecs[id]) /\ GetSize(vecs[id]) <= GetCapacity(vecs[id])

C2_Witness ==
    /\ last.op = "CopyAssign"
    /\ last.id # last.arg
    /\ Pre.capacity = 2
    /\ last.pre[last.arg].size = 1
    /\ last.pre[last.arg].capacity = 2
    /\ Post.size = 1

\* C3: after n PushBack calls with v1..vn on a container that started empty,
\* Size() = n and the element at index i is v(i+1).
C3_PushBackKeepsInsertionOrder ==
    pushed.valid =>
        /\ status = "ok"
        /\ GetSize(vecs[1]) = Len(pushed.vals)
        /\ \A i \in 1..Len(pushed.vals) : vecs[1].items[i] = pushed.vals[i]

C3_Witness ==
    /\ pushed.valid
    /\ pushed.vals = <<1, 2, 1>>
    /\ last.op = "PushBack"
    /\ Pre.capacity = 2
    /\ Post.capacity = 4

\* C4: PushBack and Insert on a full container of capacity c leave capacity
\* 2c if c > 0 and 1 if c = 0; on a container that is not full they leave the
\* capacity unchanged.
C4_GrowthDoubles ==
    last.op \in {"PushBack", "Insert"} =>
        /\ status = "ok"
        /\ Post.capacity =
             IF Pre.size = Pre.capacity
             THEN (IF Pre.capacity > 0 THEN 2 * Pre.capacity ELSE 1)
             ELSE Pre.capacity

C4_Witness ==
    /\ last.op = "Insert"
    /\ Pre.size = 2
    /\ Pre.capacity = 2
    /\ Post.capacity = 4

\* C5: along PushBack, PopBack, Insert, Erase, Clear, Resize and Reserve on
\* one container the capacity never decreases from a state to the next, and
\* PopBack, Clear, Erase and a Resize to a smaller size leave it unchanged.
ShrinkingCall ==
    \/ last'.op \in {"PopBack", "Clear", "Erase"}
    \/ last'.op = "Resize" /\ last'.arg < vecs[1].size

C5_CapacityNeverDecreases ==
    [][/\ vecs'[1].capacity >= vecs[1].capacity
       /\ ShrinkingCall => vecs'[1].capacity = vecs[1].capacity]_vars

C5_Witness ==
    /\ last.op = "Clear"
    /\ Pre.size = 2
    /\ Pre.capacity = 4
    /\ Post.capacity = 4
    /\ Post.size = 0

\* C6: Resize(n) with old size s, in any reachable state, leaves Size() = n,
\* leaves the elements at [0, min(s, n)) unchanged and, when n > s, makes
\* every element at [s, n) the default value.
C6_ResizeSetsSizeAndDefaults ==
    last.op = "Resize" =>
        /\ status = "ok"
        /\ Post.size = last.arg
        /\ \A i \in 1..last.arg :
             Post.items[i] = IF i <= Pre.size THEN Pre.items[i] ELSE DefaultValue

\* C7: Insert at index i, 0 <= i <= Size(), of a container holding
\* e0..e(s-1) leaves e0..e(i-1), value, e(i)..e(s-1) with Size() = s+1 and
\* returns the position of index i of the container after the call.
C7_InsertPlacesValue ==
    last.op = "Insert" =>
        /\ status = "ok"
        /\ Post.size = Pre.size + 1
        /\ Live(Post) = SubSeq(Live(Pre), 1, PosIndex) \o <<last.arg>>
                          \o SubSeq(Live(Pre), PosIndex + 1, Pre.size)
        /\ last.ret = begin(Post) + PosIndex

C7_Witness ==
    /\ last.op = "Insert"
    /\ Live(Pre) = <<1, 2>>
    /\ Pre.capacity = 2
    /\ PosIndex = 0
    /\ last.arg = 0
    /\ Live(Post) = <<0, 1, 2>>

\* C8: Erase at index i, 0 <= i < Size(), of a container holding e0..e(s-1)
\* leaves e0..e(i-1), e(i+1)..e(s-1) with Size() = s-1 and the capacity
\* unchanged, and returns the position of index i if i < s-1 and end()
\* otherwise.
C8_EraseRemovesElement ==
    last.op = "Erase" =>
        /\ status = "ok"
        /\ Post.size = Pre.size - 1
        /\ Post.capacity = Pre.capacity
        /\ Live(Post) = SubSeq(Live(Pre), 1, PosIndex)
                          \o SubSeq(Live(Pre), PosIndex + 2, Pre.size)
        /\ last.ret = IF PosIndex < Pre.size - 1
                      THEN begin(Post) + PosIndex
                      ELSE end(Post)

C8_Witness ==
    /\ last.op = "Erase"
    /\ Live(Pre) = <<1, 2, 0>>
    /\ PosIndex = 0
    /\ Live(Post) = <<2, 0>>
    /\ last.ret = begin(Post)

\* What a caller can observe of a container.
Observed(vec) == <<Live(vec), GetSize(vec), GetCapacity(vec)>>

\* C9: Insert(end(), v) and PushBack(v) applied to the same state give the
\* same elements, the same Size() and the same Capacity().
C9_InsertAtEndIsPushBack ==
    /\ (last.op = "Insert" /\ last.pos = end(Pre)) =>
          /\ status = "ok"
          /\ ~PushBack(Pre, last.arg).ub
          /\ Observed(Post) = Observed(PushBack(Pre, last.arg).vec)
    /\ last.op = "PushBack" =>
          /\ status = "ok"
          /\ ~Insert(Pre, end(Pre), last.arg).ub
          /\ Observed(Post) = Observed(Insert(Pre, end(Pre), last.arg).vec)

C9_Witness ==
    /\ last.op = "Insert"
    /\ last.pos = end(Pre)
    /\ Pre.size = 0
    /\ Pre.capacity = 2
    /\ Live(Post) = <<1>>

\* C10: Erase at index i followed by Insert at index i of the erased value
\* gives back the original elements and the original Size().
C10_EraseThenInsertRestores ==
    (last.op = "Erase" /\ status = "ok") =>
        LET back == Insert(Post, begin(Post) + PosIndex, Load(Pre, last.pos))
        IN  /\ ~back.ub
            /\ Live(back.vec) = Live(Pre)
            /\ GetSize(back.vec) = GetSize(Pre)

C10_Witness ==
    /\ last.op = "Erase"
    /\ Live(Pre) = <<1, 2, 1>>
    /\ PosIndex = 1
    /\ Live(Post) = <<1, 1>>
    /\ Live(Insert(Post, begin(Post) + 1, 2).vec) = <<1, 2, 1>>

\* C15: Reserve(k) with k <= Capacity() changes nothing: size, capacity and
\* every slot of the buffer are as before.
C15_ReserveWithinCapacityIsNoOp ==
    (last.op = "Reserve" /\ last.arg <= Pre.capacity) =>
        /\ status = "ok"
        /\ Post = Pre

C15_Witness ==
    /\ last.op = "Reserve"
    /\ last.arg = 3
    /\ Pre.capacity = 3
    /\ Live(Pre) = <<1, 2>>
    /\ Post = Pre

\* C17: Resize(n) with n > Capacity() leaves Capacity() = n exactly, whereas
\* PushBack and Insert on a full container of capacity c > 0 leave 2c.
C17_ResizeGrowsExactly ==
    /\ (last.op = "Resize" /\ last.arg > Pre.capacity) =>
          /\ status = "ok"
          /\ Post.capacity = last.arg
    /\ (last.op \in {"PushBack", "Insert"} /\ Pre.size = Pre.capacity
          /\ Pre.capacity > 0) =>
          /\ status = "ok"
          /\ Post.capacity = 2 * Pre.capacity

C17_Witness ==
    /\ last.op = "Resize"
    /\ Pre.capacity = 2
    /\ Pre.size = 1
    /\ last.arg = 3
    /\ Post.capacity = 3
    /\ Post.size = 3

\* The calls made on one container.
SingleOps == {"PushBack", "PopBack", "Insert", "Erase", "Clear", "Resize", "Reserve"}

\* The source container of the latest call on two containers, before and
\* after the call.
SrcPre == last.pre[last.arg]
SrcPost == vecs[last.arg]

\* C13: a copy made by copy construction or copy assignment is == to the
\* original, the original is unchanged by the copy, and a later call on one
\* of the two containers leaves the other one unchanged.
CopyIsEqual ==
    (last.op \in {"CopyCtor", "CopyAssign"} /\ last.id # last.arg) =>
        /\ status = "ok"
        /\ OpEq(Post, SrcPost, FALSE) = [val |-> TRUE, ub |-> FALSE]
        /\ OpEq(SrcPost, Post, FALSE) = [val |-> TRUE, ub |-> FALSE]
        /\ Live(Post) = Live(SrcPre)
        /\ SrcPost = SrcPre

OthersUntouched ==
    last'.op \in SingleOps => \A id \in Ids \ {last'.id} : vecs'[id] = vecs[id]

C13_CopyIsEqualAndIndependent ==
    [](CopyIsEqual) /\ [][OthersUntouched]_vars

C13_Witness ==
    /\ last.op = "CopyAssign"
    /\ last.id # last.arg
    /\ Live(Pre) = <<1>>
    /\ Live(SrcPre) = <<0, 1>>
    /\ Live(Post) = <<0, 1>>

\* C14: after a move construction or a move assignment to a distinct
\* destination the source has Size() = 0 and Capacity() = 0, the destination
\* has the elements, size and capacity the source had, and a PushBack on
\* the source leaves it with capacity 1 and size 1.
C14_MoveEmptiesSource ==
    (last.op \in {"MoveCtor", "MoveAssign"} /\ last.id # last.arg) =>
        /\ status = "ok"
        /\ GetSize(SrcPost) = 0
        /\ GetCapacity(SrcPost) = 0
        /\ Observed(Post) = Observed(SrcPre)
        /\ \A x \in PairValues :
             LET r == PushBack(SrcPost, x)
             IN  /\ ~r.ub
                 /\ Observed(r.vec) = <<(<<x>>), 1, 1>>

C14_Witness ==
    /\ last.op = "MoveAssign"
    /\ last.id # last.arg
    /\ Live(Pre) = <<1>>
    /\ Live(SrcPre) = <<0, 1>>
    /\ Live(Post) = <<0, 1>>
    /\ GetCapacity(SrcPost) = 0

\* Sequence s comes before sequence t in the lexicographic order: they agree
\* on k elements and then s ends and t does not, or the next element of s
\* is smaller.
Precedes(s, t) ==
    \E k \in 0..Len(s) :
        /\ k <= Len(t)
        /\ SubSeq(s, 1, k) = SubSeq(t, 1, k)
        /\ \/ k = Len(s) /\ k < Len(t)
           \/ k < Len(s) /\ k < Len(t) /\ s[k + 1] < t[k + 1]

\* C16: a == b iff the sizes are equal and the elements are equal in order;
\* a < b iff a comes before b lexicographically; a != b iff not a == b;
\* a > b iff b < a; a <= b iff a < b or a == b; a >= b iff not a < b; equal
\* containers are neither < nor >; only the elements at [0, Size()) count.
C16_ComparisonsAreLexicographic ==
    last.op = "Compare" =>
        LET a == Live(Pre)
            b == Live(SrcPre)
            r == last.ret
        IN  /\ status = "ok"
            /\ r.eq <=> (Len(a) = Len(b) /\ \A i \in 1..Len(a) : a[i] = b[i])
            /\ r.lt <=> Precedes(a, b)
            /\ r.ne <=> ~r.eq
            /\ r.gt <=> Precedes(b, a)
            /\ r.le <=> (r.lt \/ r.eq)
            /\ r.ge <=> ~r.lt
            /\ r.eq => (~r.lt /\ ~r.gt)

C16_Witness ==
    /\ last.op = "Compare"
    /\ Live(Pre) = <<0, 0>>
    /\ GetCapacity(Pre) = 3
    /\ Pre.items[3] = 1
    /\ Live(SrcPre) = <<0, 0, 1>>
    /\ last.ret.lt
    /\ ~last.ret.eq
    /\ ~last.ret.gt

\* C18: a copy-constructed container, and the destination of a copy
\* assignment from a distinct source, has Capacity() equal to the Size() of
\* the source, whatever capacities the two had.
C18_CopyCapacityIsSourceSize ==
    (last.op \in {"CopyCtor", "CopyAssign"} /\ last.id # last.arg) =>
        /\ status = "ok"
        /\ GetCapacity(Post) = GetSize(SrcPre)

C18_Witness ==
    /\ last.op = "CopyAssign"
    /\ last.id # last.arg
    /\ GetCapacity(Pre) = 2
    /\ GetCapacity(SrcPre) = 2
    /\ GetSize(SrcPre) = 1
    /\ GetCapacity(Post) = 1

\* C11: a PushBack, an Insert, a growing Resize or a Reserve whose buffer
\* allocation fails is left by the allocation failure, and the container has
\* the Size(), the Capacity() and the elements it had before the call.
C11_AllocationFailureLeavesState ==
    last.thrown = "bad_alloc" =>
        /\ last.op \in {"PushBack", "Insert", "Resize", "Reserve"}
        /\ status = "ok"
        /\ Observed(Post) = Observed(Pre)
        /\ Post = Pre

C11_Witness ==
    /\ last.op = "Resize"
    /\ last.thrown = "bad_alloc"
    /\ Live(Pre) = <<1, 2>>
    /\ GetCapacity(Pre) = 3
    /\ last.arg = 4
    /\ Observed(Post) = <<(<<1, 2>>), 2, 3>>

\* C12: At(i) throws out_of_range if and only if i >= Size(), the indices in
\* [Size(), Capacity()) included; the call leaves size, capacity and elements
\* as they were; and for i < Size() it returns the element operator[] returns.
C12_AtThrowsIffOutOfRange ==
    last.op \in {"At", "ConstAt"} =>
        /\ status = "ok"
        /\ (last.thrown = "out_of_range") <=> (last.arg >= GetSize(Pre))
        /\ vecs = last.pre
        /\ last.arg < GetSize(Pre) => last.ret = OpIndex(Pre, last.arg)

\* C19: in every state cbegin() and cend() stand for the index 0 and the
\* index Size() as Insert computes an index, pos - begin(), and Insert at a
\* position taken from cbegin() or cend() leaves what Insert at begin() or
\* end() leaves, the empty container with a capacity above 0 included.
C19_ConstIteratorsMatchMutable ==
    /\ cbegin(vecs[1]) - begin(vecs[1]) = 0
    /\ cend(vecs[1]) - begin(vecs[1]) = GetSize(vecs[1])
    /\ last.op = "InsertAtConst" =>
          LET same == Insert(Pre, IF last.pos = cbegin(Pre) THEN begin(Pre) ELSE end(Pre),
                             last.arg)
          IN  /\ status = "ok"
              /\ ~same.ub
              /\ Observed(Post) = Observed(same.vec)

====
